---- MODULE Spec2Model ----
(***************************************************************************)
(* A model of protfasta/io.py: the FASTA parser _parse_fasta_all and the   *)
(* FASTA writer write_fasta_file.                                          *)
(*                                                                         *)
(* Python strings are modelled as sequences of one-character strings, so   *)
(* that strip(), upper(), indexing and slicing are computed character by   *)
(* character.  A dict is modelled as the sequence of its <<key, value>>    *)
(* items in insertion order (the iteration order of a Python dict).        *)
(***************************************************************************)
EXTENDS Integers, Sequences, FiniteSets, TLC

(***************************************************************************)
(* Bounds of the model.                                                    *)
(***************************************************************************)
MaxLines == 5
MaxSeqLen == 5
MaxWidth == 3
MaxFileLines == 4

(***************************************************************************)
(* String primitives.                                                      *)
(***************************************************************************)
Whitespace == {" ", "\n", "\t"}

Lowercase == <<"a", "b", "k", "m", "v">>
Uppercase == <<"A", "B", "K", "M", "V">>

upper_char(c) ==
    IF \E n \in 1..Len(Lowercase) : Lowercase[n] = c
    THEN Uppercase[CHOOSE n \in 1..Len(Lowercase) : Lowercase[n] = c]
    ELSE c

\* str.upper()
upper(s) == [n \in 1..Len(s) |-> upper_char(s[n])]

RECURSIVE lstrip(_)
lstrip(s) == IF s # <<>> /\ Head(s) \in Whitespace THEN lstrip(Tail(s)) ELSE s

RECURSIVE rstrip(_)
rstrip(s) ==
    IF s # <<>> /\ s[Len(s)] \in Whitespace
    THEN rstrip(SubSeq(s, 1, Len(s) - 1))
    ELSE s

\* str.strip()
strip(s) == rstrip(lstrip(s))

(***************************************************************************)
(* dict primitives: `key in d` and `d[key] = value`.                       *)
(***************************************************************************)
dict_has(d, k) == \E n \in 1..Len(d) : d[n][1] = k

dict_set(d, k, v) ==
    IF dict_has(d, k)
    THEN [n \in 1..Len(d) |-> IF d[n][1] = k THEN <<k, v>> ELSE d[n]]
    ELSE Append(d, <<k, v>>)

(***************************************************************************)
(* Inputs of the parser.                                                   *)
(***************************************************************************)
\* The raw lines a file may hold (as readlines() returns them).
Lines ==
    { <<" ", "\n">>,
      <<">", "a", "\n">>,
      <<">", "A", "\n">>,
      <<" ", ">", "a", "b", " ", "\n">>,
      <<"m", "k", "\n">>,
      <<" ", "V", " ", "\n">> }

Modes == {"list", "dict"}

(***************************************************************************)
(* Inputs of the writer.                                                   *)
(***************************************************************************)
\* Python values of the linelength argument.
\* A number is val + frac/10 with val its floor: 2.5 is PyFloat(2, 5).
PyNone == [type |-> "NoneType", val |-> 0, frac |-> 0]
PyFalse == [type |-> "bool", val |-> 0, frac |-> 0]
PyTrue == [type |-> "bool", val |-> 1, frac |-> 0]
PyInt(n) == [type |-> "int", val |-> n, frac |-> 0]
PyFloat(n, f) == [type |-> "float", val |-> n, frac |-> f]

LineLengths ==
    {PyNone, PyFalse, PyTrue} \cup {PyInt(n) : n \in -1..MaxWidth} \cup
    {PyFloat(0, 0), PyFloat(0, 5), PyFloat(2, 5)}

Keys == { <<"a">>, <<"b">>, <<"B", " ">> }

Letters == <<"A", "B", "C", "D", "E", "F", "G", "H">>

\* The sequences a mapping may hold: A, AB, ABC, ... and the empty one, a
\* lower-case one, one with a blank and one that starts with '>'.
Seqs ==
    {SubSeq(Letters, 1, n) : n \in 0..MaxSeqLen} \cup
    { <<"m", "k">>, <<"k", " ">>, <<">", "k">> }

\* The dicts over Keys: every ordering of every subset of the keys.
Dicts ==
    {<<>>} \cup
    { <<<<k, s>>>> : k \in Keys, s \in Seqs } \cup
    { << <<k[1], s1>>, <<k[2], s2>> >> :
        k \in {kk \in Keys \X Keys : kk[1] # kk[2]}, s1 \in Seqs, s2 \in Seqs }

\* header_parser: None, or the caller's function lambda h: h[:1]
HeaderParsers == {"None", "first_char"}

VARIABLES
    mode, expect_unique_header, header_parser,   \* arguments of _parse_fasta_all
    content,          \* the lines the loop has been handed so far
    seq, header,      \* the record being built
    return_data,      \* the collection being built
    all_headers,      \* list mode: headers of the committed records
    outcome,          \* "running", "returned" or "raised"
    result,           \* the value returned to the caller (when returned)
    error             \* the header named by the exception (when raised)

VARIABLES
    sequence_dict,    \* argument of write_fasta_file: the items, in iteration order
    linelength_arg,   \* the linelength argument as passed
    linelength,       \* the local linelength (reassigned by the function)
    fh,               \* the text written to the file
    fh_open,          \* whether the file handle is open
    key_idx,          \* the number of keys the for loop has taken
    i,                \* the number of characters of seq the inner loop has written
    wrotenewline,     \* "unbound", "True" or "False"
    wpc               \* where write_fasta_file stands

VARIABLES
    ci_args,          \* the arguments of check_inputs
    ci_pc             \* the check check_inputs is at, "returned" or "raised"

cvars == <<ci_args, ci_pc>>

VARIABLES
    file_state,       \* what the filename names: "file", "missing", ...
    file_text,        \* the text of the file
    rfh_open,         \* whether the handle of internal_parse_fasta_file is open
    rpc,              \* where internal_parse_fasta_file stands
    raised_type       \* the type of the exception that reached the caller

rvars == <<file_state, file_text, rfh_open, rpc, raised_type>>

VARIABLES
    run,              \* the number of the write_fasta_file call (1 or 2)
    first_run         \* how the first call ended and what it wrote

w2vars == <<run, first_run>>

nvars == <<cvars, rvars, w2vars>>

wvars == <<sequence_dict, linelength_arg, linelength, fh, fh_open, key_idx, i,
           wrotenewline, wpc>>

pvars == <<mode, expect_unique_header, header_parser, content, seq, header,
           return_data, all_headers, outcome, result, error>>

(***************************************************************************)
(* _parse_fasta_all                                                        *)
(***************************************************************************)
\* Mutant: list mode rejects a repeated header whatever the flag.
check_duplicate_flagless(m, euh, h, rd, ah) ==
    IF m = "dict"
    THEN \E n \in 1..Len(rd) : rd[n][1] = h
    ELSE \E n \in 1..Len(ah) : ah[n] = h

\* Mutant: mapping mode honours the unique-header flag as list mode does.
check_duplicate_dict_flag(m, euh, h, rd, ah) ==
    IF m = "dict"
    THEN euh /\ \E n \in 1..Len(rd) : rd[n][1] = h
    ELSE euh /\ \E n \in 1..Len(ah) : ah[n] = h

\* check_duplicate(): TRUE when it raises ProtfastaException
check_duplicate(m, euh, h, rd, ah) ==
    IF m = "dict"
    THEN dict_has(rd, h)
    ELSE euh /\ \E n \in 1..Len(ah) : ah[n] = h

\* Mutant: the sequence is stored as read, not upper-cased.
update_as_read(m, h, s, rd) ==
    IF m = "dict"
    THEN dict_set(rd, h, s)
    ELSE Append(rd, <<h, s>>)

\* Mutant: list mode puts the new record in front of the committed ones.
update_prepend(m, h, s, rd) ==
    IF m = "dict"
    THEN dict_set(rd, h, upper(s))
    ELSE <<<<h, upper(s)>>>> \o rd

\* update(): the new return_data
update(m, h, s, rd) ==
    IF m = "dict"
    THEN dict_set(rd, h, upper(s))
    ELSE Append(rd, <<h, upper(s)>>)

\* Mutant: list mode does not remember the headers it has committed.
update_headers_forgets(m, h, ah) == ah

\* update(): the new all_headers (list mode only)
update_headers(m, h, ah) == IF m = "dict" THEN ah ELSE Append(ah, h)

\* Mutant: the header function is never called.
apply_header_parser_never(hp, h) == h

\* header = header_parser(h) if header_parser else h
apply_header_parser(hp, h) ==
    IF hp = "None" THEN h ELSE SubSeq(h, 1, IF Len(h) < 1 THEN Len(h) ELSE 1)

\* The local state of one call.
ParserState(s, h, rd, ah) ==
    [seq |-> s, header |-> h, return_data |-> rd, all_headers |-> ah,
     raised |-> FALSE, error |-> <<>>]

\* Mutant: a duplicate record is skipped instead of raising.
finalize_skip_duplicate(st, m, euh) ==
    IF Len(st.seq) > 0
    THEN IF check_duplicate(m, euh, st.header, st.return_data, st.all_headers)
         THEN st
         ELSE [st EXCEPT !.return_data = update(m, st.header, st.seq, st.return_data),
                         !.all_headers = update_headers(m, st.header, st.all_headers)]
    ELSE st

\* Mutant: the record is committed whether or not it has a sequence.
finalize_always(st, m, euh) ==
    IF check_duplicate(m, euh, st.header, st.return_data, st.all_headers)
    THEN [st EXCEPT !.raised = TRUE, !.error = st.header]
    ELSE [st EXCEPT !.return_data = update(m, st.header, st.seq, st.return_data),
                    !.all_headers = update_headers(m, st.header, st.all_headers)]

\* if len(seq) > 0: check_duplicate(); update()
finalize(st, m, euh) ==
    IF Len(st.seq) > 0
    THEN IF check_duplicate(m, euh, st.header, st.return_data, st.all_headers)
         THEN [st EXCEPT !.raised = TRUE, !.error = st.header]
         ELSE [st EXCEPT !.return_data = update(m, st.header, st.seq, st.return_data),
                         !.all_headers = update_headers(m, st.header, st.all_headers)]
    ELSE st

\* Mutant: a blank line ends the sequence being read.
loop_body_blank_ends(st, line, m, euh, hp) ==
    LET sline == strip(line) IN
    IF Len(sline) = 0
    THEN [st EXCEPT !.seq = <<>>]
    ELSE IF sline[1] = ">"
         THEN LET h == Tail(sline)
                  f == finalize(st, m, euh)
              IN  IF f.raised
                  THEN f
                  ELSE [f EXCEPT !.header = apply_header_parser(hp, h), !.seq = <<>>]
         ELSE [st EXCEPT !.seq = st.seq \o sline]

\* One iteration of `for line in content`.
loop_body(st, line, m, euh, hp) ==
    LET sline == strip(line) IN
    IF Len(sline) = 0
    THEN st
    ELSE IF sline[1] = ">"
         THEN LET h == Tail(sline)
                  f == finalize(st, m, euh)
              IN  IF f.raised
                  THEN f
                  ELSE [f EXCEPT !.header = apply_header_parser(hp, h), !.seq = <<>>]
         ELSE [st EXCEPT !.seq = st.seq \o sline]

\* The whole call on a list of lines: the state after the loop and the final
\* finalize; .raised tells whether it raised.
RECURSIVE parse_loop(_, _, _, _, _)
parse_loop(st, lines, m, euh, hp) ==
    IF lines = <<>> \/ st.raised
    THEN st
    ELSE parse_loop(loop_body(st, Head(lines), m, euh, hp), Tail(lines), m, euh, hp)

parse_fasta_all(lines, m, euh, hp) ==
    LET st == parse_loop(ParserState(<<>>, <<>>, <<>>, <<>>), lines, m, euh, hp)
    IN  IF st.raised THEN st ELSE finalize(st, m, euh)

(***************************************************************************)
(* The parser as a state machine, one line per step.                       *)
(***************************************************************************)
Current == [ParserState(seq, header, return_data, all_headers) EXCEPT !.raised = FALSE]

Install(st) ==
    /\ seq' = st.seq
    /\ header' = st.header
    /\ return_data' = st.return_data
    /\ all_headers' = st.all_headers
    /\ outcome' = IF st.raised THEN "raised" ELSE outcome
    /\ error' = st.error

\* No call is running.
ParserIdle ==
    /\ content = <<>>
    /\ seq = <<>>
    /\ header = <<>>
    /\ return_data = <<>>
    /\ all_headers = <<>>
    /\ outcome = "running"
    /\ result = <<>>
    /\ error = <<>>

WriterIdle ==
    /\ linelength = linelength_arg
    /\ fh = <<>>
    /\ fh_open = FALSE
    /\ key_idx = 0
    /\ i = 0
    /\ wrotenewline = "unbound"

CheckIdle ==
    /\ ci_args = <<>>
    /\ ci_pc = "idle"

ReaderIdle ==
    /\ file_state = "missing"
    /\ file_text = <<>>
    /\ rfh_open = FALSE
    /\ rpc = "idle"
    /\ raised_type = "none"

FirstRun ==
    /\ run = 1
    /\ first_run = <<>>

InitParse ==
    /\ CheckIdle
    /\ ReaderIdle
    /\ FirstRun
    /\ mode \in Modes
    /\ expect_unique_header \in BOOLEAN
    /\ header_parser \in HeaderParsers
    /\ sequence_dict = <<>>
    /\ linelength_arg = PyNone
    /\ WriterIdle
    /\ wpc = "idle"
    /\ content = <<>>
    /\ seq = <<>>
    /\ header = <<>>
    /\ return_data = <<>>
    /\ all_headers = <<>>
    /\ outcome = "running"
    /\ result = <<>>
    /\ error = <<>>

\* if len(sline) == 0: continue
SkipBlank(line) ==
    /\ outcome = "running"
    /\ Len(content) < MaxLines
    /\ Len(strip(line)) = 0
    /\ content' = Append(content, line)
    /\ Install(loop_body(Current, line, mode, expect_unique_header, header_parser))
    /\ UNCHANGED <<mode, expect_unique_header, header_parser, result, wvars, nvars>>

\* if sline[0] == '>': ...
HeaderLine(line) ==
    /\ outcome = "running"
    /\ Len(content) < MaxLines
    /\ Len(strip(line)) > 0
    /\ strip(line)[1] = ">"
    /\ content' = Append(content, line)
    /\ Install(loop_body(Current, line, mode, expect_unique_header, header_parser))
    /\ UNCHANGED <<mode, expect_unique_header, header_parser, result, wvars, nvars>>

\* else: seq = seq + sline
SequenceLine(line) ==
    /\ outcome = "running"
    /\ Len(content) < MaxLines
    /\ Len(strip(line)) > 0
    /\ strip(line)[1] # ">"
    /\ content' = Append(content, line)
    /\ Install(loop_body(Current, line, mode, expect_unique_header, header_parser))
    /\ UNCHANGED <<mode, expect_unique_header, header_parser, result, wvars, nvars>>

\* The loop is over: the final finalize, then `return return_data`.
EndOfInput ==
    /\ outcome = "running"
    /\ LET f == finalize(Current, mode, expect_unique_header) IN
        /\ seq' = f.seq
        /\ header' = f.header
        /\ return_data' = f.return_data
        /\ all_headers' = f.all_headers
        /\ outcome' = IF f.raised THEN "raised" ELSE "returned"
        /\ error' = f.error
        /\ result' = IF f.raised THEN <<>> ELSE f.return_data
    /\ UNCHANGED <<mode, expect_unique_header, header_parser, content, wvars, nvars>>

NextParse ==
    \/ \E line \in Lines : SkipBlank(line)
    \/ \E line \in Lines : HeaderLine(line)
    \/ \E line \in Lines : SequenceLine(line)
    \/ EndOfInput

vars == <<pvars, wvars, nvars>>

Spec == InitParse /\ [][NextParse]_vars

(***************************************************************************)
(* write_fasta_file                                                        *)
(***************************************************************************)
\* Mutant: the test reads linelength <= 1, so a width of 1 is disabled too.
line_length_disabled_le(ll) ==
    \/ ll.type # "NoneType" /\ ll.val = 0 /\ ll.frac = 0
    \/ ll.type = "NoneType"
    \/ ll.val < 1
    \/ ll.val = 1 /\ ll.frac = 0

\* linelength == False or linelength == None or linelength < 1
\* (x < 1 exactly when floor(x) < 1)
line_length_disabled(ll) ==
    \/ ll.type # "NoneType" /\ ll.val = 0 /\ ll.frac = 0
    \/ ll.type = "NoneType"
    \/ ll.val < 1

\* The override of lines 293-298: False, or int(linelength); int() of a
\* number >= 1 is its floor.
line_length(ll) == IF line_length_disabled(ll) THEN PyFalse ELSE PyInt(ll.val)

\* `if linelength:`
truthy(ll) == ll.type # "NoneType" /\ (ll.val # 0 \/ ll.frac # 0)

\* fh.readlines(): the lines of a text, each with its line break.
RECURSIVE split_lines(_, _)
split_lines(text, cur) ==
    IF text = <<>>
    THEN IF cur = <<>> THEN <<>> ELSE <<cur>>
    ELSE IF Head(text) = "\n"
         THEN <<Append(cur, "\n")>> \o split_lines(Tail(text), <<>>)
         ELSE split_lines(Tail(text), Append(cur, Head(text)))

readlines(text) == split_lines(text, <<>>)

InitWrite ==
    /\ CheckIdle
    /\ ReaderIdle
    /\ FirstRun
    /\ mode = "list"
    /\ expect_unique_header = TRUE
    /\ header_parser = "None"
    /\ ParserIdle
    /\ sequence_dict \in Dicts
    /\ linelength_arg \in LineLengths
    /\ WriterIdle
    /\ wpc = "start"

CurrentKey == sequence_dict[key_idx][1]
CurrentSeq == sequence_dict[key_idx][2]

\* Lines 293-302: override linelength, then open the file for writing.
OpenFile ==
    /\ wpc = "start"
    /\ linelength' = line_length(linelength)
    /\ fh' = <<>>
    /\ fh_open' = TRUE
    /\ wpc' = "for_key"
    /\ UNCHANGED <<sequence_dict, linelength_arg, key_idx, i, wrotenewline, pvars, nvars>>

\* Mutant: the header is written without the line break that ends its line.
WriteHeader_no_break ==
    /\ wpc = "for_key"
    /\ key_idx < Len(sequence_dict)
    /\ key_idx' = key_idx + 1
    /\ fh' = fh \o <<">">> \o sequence_dict[key_idx + 1][1]
    /\ i' = 0
    /\ wpc' = "for_i"
    /\ UNCHANGED <<sequence_dict, linelength_arg, linelength, fh_open, wrotenewline, pvars, nvars>>

\* Mutant: the headers are taken from the keys in reverse order, the
\* sequences in the order of the mapping.
WriteHeader_reversed ==
    /\ wpc = "for_key"
    /\ key_idx < Len(sequence_dict)
    /\ key_idx' = key_idx + 1
    /\ fh' = fh \o <<">">> \o sequence_dict[Len(sequence_dict) - key_idx][1] \o <<"\n">>
    /\ i' = 0
    /\ wpc' = "for_i"
    /\ UNCHANGED <<sequence_dict, linelength_arg, linelength, fh_open, wrotenewline, pvars, nvars>>

\* Lines 305-311: take the next key and write its header line.
WriteHeader ==
    /\ wpc = "for_key"
    /\ key_idx < Len(sequence_dict)
    /\ key_idx' = key_idx + 1
    /\ fh' = fh \o <<">">> \o sequence_dict[key_idx + 1][1] \o <<"\n">>
    /\ i' = 0
    /\ wpc' = "for_i"
    /\ UNCHANGED <<sequence_dict, linelength_arg, linelength, fh_open, wrotenewline, pvars, nvars>>

\* Mutant: the wrap test reads i % linelength, not (i+1) % linelength.
WriteChar_off_by_one ==
    /\ wpc = "for_i"
    /\ i < Len(CurrentSeq)
    /\ LET wrap == truthy(linelength) /\ i % linelength.val = 0 IN
        /\ fh' = fh \o <<CurrentSeq[i + 1]>> \o (IF wrap THEN <<"\n">> ELSE <<>>)
        /\ wrotenewline' = IF wrap THEN "True" ELSE "False"
    /\ i' = i + 1
    /\ UNCHANGED <<sequence_dict, linelength_arg, linelength, fh_open, key_idx, wpc, pvars, nvars>>

\* Lines 319-330: one iteration of the loop over the characters.
WriteChar ==
    /\ wpc = "for_i"
    /\ i < Len(CurrentSeq)
    /\ LET wrap == truthy(linelength) /\ (i + 1) % linelength.val = 0 IN
        /\ fh' = fh \o <<CurrentSeq[i + 1]>> \o (IF wrap THEN <<"\n">> ELSE <<>>)
        /\ wrotenewline' = IF wrap THEN "True" ELSE "False"
    /\ i' = i + 1
    /\ UNCHANGED <<sequence_dict, linelength_arg, linelength, fh_open, key_idx, wpc, pvars, nvars>>

\* Mutant: the file is opened without a with block, so the error leaves the
\* handle open.
WriteSeparator_no_with ==
    /\ wpc = "for_i"
    /\ i = Len(CurrentSeq)
    /\ IF wrotenewline = "unbound"
       THEN /\ wpc' = "raised"
            /\ fh_open' = fh_open
            /\ fh' = fh
       ELSE /\ wpc' = "for_key"
            /\ fh_open' = fh_open
            /\ fh' = fh \o (IF wrotenewline = "True" THEN <<"\n">> ELSE <<"\n", "\n">>)
    /\ UNCHANGED <<sequence_dict, linelength_arg, linelength, key_idx, i, wrotenewline, pvars, nvars>>

\* Lines 332-335: the separator after the sequence.  Reading wrotenewline
\* while it is unbound raises UnboundLocalError, and the with block closes
\* the file.
WriteSeparator ==
    /\ wpc = "for_i"
    /\ i = Len(CurrentSeq)
    /\ IF wrotenewline = "unbound"
       THEN /\ wpc' = "raised"
            /\ fh_open' = FALSE
            /\ fh' = fh
       ELSE /\ wpc' = "for_key"
            /\ fh_open' = fh_open
            /\ fh' = fh \o (IF wrotenewline = "True" THEN <<"\n">> ELSE <<"\n", "\n">>)
    /\ UNCHANGED <<sequence_dict, linelength_arg, linelength, key_idx, i, wrotenewline, pvars, nvars>>

\* The for loop is over: the with block closes the file and the call returns.
CloseFile ==
    /\ wpc = "for_key"
    /\ key_idx = Len(sequence_dict)
    /\ fh_open' = FALSE
    /\ wpc' = "done"
    /\ UNCHANGED <<sequence_dict, linelength_arg, linelength, fh, key_idx, i, wrotenewline, pvars, nvars>>

\* Mutant: the second call finds the iteration over the mapping where the
\* first call left it (a mapping that can be iterated only once).
WriteAgain_exhausted ==
    /\ run = 1
    /\ wpc \in {"done", "raised"}
    /\ run' = 2
    /\ first_run' = <<wpc, fh>>
    /\ linelength' = linelength_arg
    /\ fh' = <<>>
    /\ fh_open' = FALSE
    /\ key_idx' = key_idx
    /\ i' = 0
    /\ wrotenewline' = "unbound"
    /\ wpc' = "start"
    /\ UNCHANGED <<sequence_dict, linelength_arg, pvars, cvars, rvars>>

\* The caller calls write_fasta_file a second time with the same mapping and
\* the same linelength and another filename: the locals of the call are
\* fresh, the destination is new.
WriteAgain ==
    /\ run = 1
    /\ wpc \in {"done", "raised"}
    /\ run' = 2
    /\ first_run' = <<wpc, fh>>
    /\ linelength' = linelength_arg
    /\ fh' = <<>>
    /\ fh_open' = FALSE
    /\ key_idx' = 0
    /\ i' = 0
    /\ wrotenewline' = "unbound"
    /\ wpc' = "start"
    /\ UNCHANGED <<sequence_dict, linelength_arg, pvars, cvars, rvars>>

\* The file written is read back (readlines) and parsed by _parse_fasta_all.
Reparse(m, euh) ==
    /\ wpc = "done"
    /\ wpc' = "reparsed"
    /\ mode' = m
    /\ expect_unique_header' = euh
    /\ content' = readlines(fh)
    /\ LET r == parse_fasta_all(readlines(fh), m, euh, header_parser) IN
        /\ seq' = r.seq
        /\ header' = r.header
        /\ return_data' = r.return_data
        /\ all_headers' = r.all_headers
        /\ outcome' = IF r.raised THEN "raised" ELSE "returned"
        /\ error' = r.error
        /\ result' = IF r.raised THEN <<>> ELSE r.return_data
    /\ UNCHANGED <<header_parser, sequence_dict, linelength_arg, linelength, fh,
                   fh_open, key_idx, i, wrotenewline, nvars>>

NextWrite ==
    \/ OpenFile
    \/ WriteHeader
    \/ WriteChar
    \/ WriteSeparator
    \/ CloseFile
    \/ WriteAgain
    \/ \E m \in Modes, euh \in BOOLEAN : Reparse(m, euh)

SpecWrite == InitWrite /\ [][NextWrite]_vars

(***************************************************************************)
(* check_inputs                                                            *)
(***************************************************************************)
\* A str argument: its text, and whether the object is the very object of
\* the literal in check_inputs (what `is` tests; equal strings built at run
\* time are other objects).
Str(t, lit) == [text |-> t, literal |-> lit]

UniqueHeaderValues == {PyTrue, PyFalse, PyInt(1)}
HeaderParserValues == {"None", "not_callable", "raises", "returns_int", "returns_str"}
DuplicateRecordActions ==
    {Str("ignore", TRUE), Str("ignore", FALSE), Str("fail", TRUE),
     Str("remove", TRUE), Str("other", FALSE)}
DuplicateSequenceActions == {"ignore", "fail", "remove", "other"}
InvalidSequenceActions == {"ignore", "fail", "remove", "convert", "other"}
ReturnListValues == {PyTrue, PyNone}
OutputFilenameValues == {"None", "str", "int"}
VerboseValues == {PyFalse, PyInt(0)}

InitCheck ==
    /\ mode = "list"
    /\ expect_unique_header = TRUE
    /\ header_parser = "None"
    /\ ParserIdle
    /\ sequence_dict = <<>>
    /\ linelength_arg = PyNone
    /\ WriterIdle
    /\ wpc = "idle"
    /\ ReaderIdle
    /\ FirstRun
    /\ ci_args \in [expect_unique_header : UniqueHeaderValues,
                    header_parser : HeaderParserValues,
                    duplicate_record_action : DuplicateRecordActions,
                    duplicate_sequence_action : DuplicateSequenceActions,
                    invalid_sequence_action : InvalidSequenceActions,
                    return_list : ReturnListValues,
                    output_filename : OutputFilenameValues,
                    verbose : VerboseValues]
    /\ ci_pc = "expect_unique_header"

\* One check: raise ProtfastaException when `bad`, else go on to `next`.
CheckStep(at, bad, next) ==
    /\ ci_pc = at
    /\ ci_pc' = IF bad THEN "raised" ELSE next
    /\ UNCHANGED <<ci_args, pvars, wvars, rvars, w2vars>>

\* `x is 'ignore'`
is_ignore(x) == x.text = "ignore" /\ x.literal

\* Lines 71-72
CheckUniqueHeader ==
    CheckStep("expect_unique_header",
              ci_args.expect_unique_header.type # "bool", "header_parser")

\* Lines 76-85
CheckHeaderParser ==
    CheckStep("header_parser",
              ci_args.header_parser \in {"not_callable", "raises", "returns_int"},
              "duplicate_record_action")

\* Lines 88-89
CheckDuplicateRecordAction ==
    CheckStep("duplicate_record_action",
              ci_args.duplicate_record_action.text \notin {"ignore", "fail", "remove"},
              "duplicate_sequence_action")

\* Lines 92-93
CheckDuplicateSequenceAction ==
    CheckStep("duplicate_sequence_action",
              ci_args.duplicate_sequence_action \notin {"ignore", "fail", "remove"},
              "invalid_sequence_action")

\* Lines 97-98
CheckInvalidSequenceAction ==
    CheckStep("invalid_sequence_action",
              ci_args.invalid_sequence_action \notin {"ignore", "fail", "remove", "convert"},
              "return_list")

\* Lines 101-102
CheckReturnList ==
    CheckStep("return_list", ci_args.return_list.type # "bool", "output_filename")

\* Lines 105-107
CheckOutputFilename ==
    CheckStep("output_filename", ci_args.output_filename = "int", "verbose")

\* Lines 109-110
CheckVerbose ==
    CheckStep("verbose", ci_args.verbose.type # "bool", "cross")

\* Lines 112-114, then the function returns.
CheckCross ==
    CheckStep("cross",
              /\ is_ignore(ci_args.duplicate_record_action)
              /\ ci_args.expect_unique_header = PyTrue,
              "returned")

NextCheck ==
    \/ CheckUniqueHeader
    \/ CheckHeaderParser
    \/ CheckDuplicateRecordAction
    \/ CheckDuplicateSequenceAction
    \/ CheckInvalidSequenceAction
    \/ CheckReturnList
    \/ CheckOutputFilename
    \/ CheckVerbose
    \/ CheckCross

SpecCheck == InitCheck /\ [][NextCheck]_vars

(***************************************************************************)
(* internal_parse_fasta_file                                               *)
(***************************************************************************)
RECURSIVE join(_)
join(ls) == IF ls = <<>> THEN <<>> ELSE Head(ls) \o join(Tail(ls))

\* The texts a file may hold: up to MaxFileLines of the Lines.
FileTexts ==
    {join(ls) : ls \in UNION {[1..n -> Lines] : n \in 0..MaxFileLines}}

\* What the filename names: a readable text file, nothing, a directory, a
\* file the process may not read, a file that is not valid text.
FileStates == {"file", "missing", "directory", "unreadable", "undecodable"}

InitFile ==
    /\ CheckIdle
    /\ FirstRun
    /\ mode = "list"
    /\ expect_unique_header \in BOOLEAN
    /\ header_parser = "None"
    /\ ParserIdle
    /\ sequence_dict = <<>>
    /\ linelength_arg = PyNone
    /\ WriterIdle
    /\ wpc = "idle"
    /\ file_state \in FileStates
    /\ file_text \in (IF file_state = "file" THEN FileTexts ELSE {<<>>})
    /\ rfh_open = FALSE
    /\ rpc = "start"
    /\ raised_type = "none"

\* Lines 164-168: open(filename, 'r').  FileNotFoundError is caught and
\* raised again as ProtfastaException; any other OSError propagates.
OpenRead ==
    /\ rpc = "start"
    /\ IF file_state \in {"file", "undecodable"}
       THEN /\ rfh_open' = TRUE
            /\ rpc' = "opened"
            /\ raised_type' = raised_type
       ELSE /\ rfh_open' = FALSE
            /\ rpc' = "raised"
            /\ raised_type' = CASE file_state = "missing" -> "ProtfastaException"
                                [] file_state = "directory" -> "IsADirectoryError"
                                [] file_state = "unreadable" -> "PermissionError"
    /\ UNCHANGED <<file_state, file_text, pvars, wvars, cvars, w2vars>>

\* Line 166: content = fh.readlines().  A decoding error propagates and the
\* with block closes the file.
ReadLines ==
    /\ rpc = "opened"
    /\ IF file_state = "undecodable"
       THEN /\ rfh_open' = FALSE
            /\ rpc' = "raised"
            /\ raised_type' = "UnicodeDecodeError"
            /\ content' = content
       ELSE /\ rfh_open' = rfh_open
            /\ rpc' = "read"
            /\ raised_type' = raised_type
            /\ content' = readlines(file_text)
    /\ UNCHANGED <<file_state, file_text, mode, expect_unique_header, header_parser,
                   seq, header, return_data, all_headers, outcome, result, error,
                   wvars, cvars, w2vars>>

\* The end of the with block of line 165.
CloseRead ==
    /\ rpc = "read"
    /\ rfh_open' = FALSE
    /\ rpc' = "closed"
    /\ UNCHANGED <<file_state, file_text, raised_type, pvars, wvars, cvars, w2vars>>

\* Line 174: return _parse_fasta_all(content, 'list', ...)
ParseContent ==
    /\ rpc = "closed"
    /\ LET r == parse_fasta_all(content, "list", expect_unique_header, header_parser) IN
        /\ seq' = r.seq
        /\ header' = r.header
        /\ return_data' = r.return_data
        /\ all_headers' = r.all_headers
        /\ outcome' = IF r.raised THEN "raised" ELSE "returned"
        /\ error' = r.error
        /\ result' = IF r.raised THEN <<>> ELSE r.return_data
        /\ rpc' = IF r.raised THEN "raised" ELSE "returned"
        /\ raised_type' = IF r.raised THEN "ProtfastaException" ELSE raised_type
    /\ UNCHANGED <<file_state, file_text, rfh_open, mode, expect_unique_header,
                   header_parser, content, wvars, cvars, w2vars>>

NextFile ==
    \/ OpenRead
    \/ ReadLines
    \/ CloseRead
    \/ ParseContent

\* A call of write_fasta_file or a call of internal_parse_fasta_file.
InitIO == InitWrite \/ InitFile

NextIO == NextWrite \/ NextFile

SpecIO == InitIO /\ [][NextIO]_vars

(***************************************************************************)
(* What the input says, read declaratively: the non-blank stripped lines,  *)
(* the positions of the header lines among them, and for each header the   *)
(* fragment lines up to the next header or the end of the input.           *)
(***************************************************************************)
RECURSIVE Concat(_)
Concat(ss) == IF ss = <<>> THEN <<>> ELSE Head(ss) \o Concat(Tail(ss))

StrippedLines(c) ==
    SelectSeq([n \in 1..Len(c) |-> strip(c[n])], LAMBDA s : Len(s) > 0)

HeaderPositions(sl) ==
    SelectSeq([n \in 1..Len(sl) |-> n], LAMBDA p : sl[p][1] = ">")

\* The first header position after p, or one past the end.
NextHeader(sl, p) ==
    LET later == {q \in (p + 1)..Len(sl) : sl[q][1] = ">"}
    IN  IF later = {} THEN Len(sl) + 1
        ELSE CHOOSE q \in later : \A r \in later : q <= r

Fragments(sl, p) == Concat(SubSeq(sl, p + 1, NextHeader(sl, p) - 1))

\* The caller's header function, as the caller wrote it.
Transformed(hp, h) ==
    IF hp = "first_char" THEN (IF h = <<>> THEN <<>> ELSE <<h[1]>>) ELSE h

\* One block per header line (in input order), preceded by the block of the
\* sequence lines that come before the first header line (its header is the
\* initial header, the empty string).
Blocks(c, hp) ==
    LET sl == StrippedLines(c)
        ps == HeaderPositions(sl)
    IN  << [raw |-> <<>>, hdr |-> <<>>, frag |-> Fragments(sl, 0)] >> \o
        [k \in 1..Len(ps) |->
            [raw |-> Tail(sl[ps[k]]),
             hdr |-> Transformed(hp, Tail(sl[ps[k]])),
             frag |-> Fragments(sl, ps[k])]]

\* The blocks that hold at least one sequence character.
FinalizedBlocks(c, hp) == SelectSeq(Blocks(c, hp), LAMBDA b : Len(b.frag) > 0)

ToUpper(s) == [n \in 1..Len(s) |-> upper_char(s[n])]

FinalizedRecords(c, hp) ==
    LET fb == FinalizedBlocks(c, hp)
    IN  [k \in 1..Len(fb) |-> <<fb[k].hdr, ToUpper(fb[k].frag)>>]

HasDuplicateHeader(recs) ==
    \E j, k \in 1..Len(recs) : j < k /\ recs[j][1] = recs[k][1]

\* Well-formed input: the first non-blank line is a header line and every
\* header line is followed by at least one sequence line.
WellFormed(c) ==
    LET sl == StrippedLines(c)
    IN  /\ sl # <<>> => sl[1][1] = ">"
        /\ \A p \in 1..Len(sl) : sl[p][1] = ">" => NextHeader(sl, p) > p + 1

NumHeaderLines(c) == Len(HeaderPositions(StrippedLines(c)))

Finished == outcome # "running"

(***************************************************************************)
(* C1: for a well-formed input with N pairwise-distinct headers, list mode *)
(* returns exactly N [header, sequence] records, in the order of the       *)
(* header lines, each sequence the upper-cased concatenation of the        *)
(* stripped sequence lines between its header and the next one.            *)
(***************************************************************************)
C1_ListModeRecords ==
    (/\ Finished
     /\ mode = "list"
     /\ WellFormed(content)
     /\ ~HasDuplicateHeader(FinalizedRecords(content, header_parser)))
    => /\ outcome = "returned"
       /\ Len(result) = NumHeaderLines(content)
       /\ result = FinalizedRecords(content, header_parser)

\* Two records, the first one built from two fragments of mixed case.
C1_Witness ==
    /\ outcome = "returned"
    /\ mode = "list"
    /\ WellFormed(content)
    /\ result = << <<<<"a">>, <<"M", "K", "V">>>>, <<<<"A">>, <<"M", "K">>>> >>

(***************************************************************************)
(* C3: list mode.  With unique-header true the parse fails exactly when a  *)
(* finalized record's header equals the header of an already committed     *)
(* record, and the error names that header; with unique-header false the   *)
(* parse never fails and returns every finalized record, duplicates        *)
(* included, in source order.                                              *)
(***************************************************************************)
C3_ListDuplicatePolicy ==
    (Finished /\ mode = "list") =>
        LET recs == FinalizedRecords(content, header_parser) IN
        IF expect_unique_header
        THEN /\ (outcome = "raised") <=> HasDuplicateHeader(recs)
             /\ outcome = "raised" =>
                    /\ error = recs[Len(recs)][1]
                    /\ \E j \in 1..(Len(recs) - 1) : recs[j][1] = error
        ELSE /\ outcome = "returned"
             /\ result = recs

\* unique-header false: two records headed "a" are returned.
C3_Witness ==
    /\ outcome = "returned"
    /\ mode = "list"
    /\ ~expect_unique_header
    /\ Len(result) = 2
    /\ result[1][1] = <<"a">>
    /\ result[2][1] = <<"a">>

(***************************************************************************)
(* C4: mapping mode.  Finalizing a record whose header is already a key    *)
(* fails whatever the unique-header flag; so the keys are never            *)
(* overwritten and a successful parse returns one entry per finalized      *)
(* record.                                                                 *)
(***************************************************************************)
C4_DictAlwaysUnique ==
    mode = "dict" =>
        /\ ~HasDuplicateHeader(return_data)
        /\ Finished =>
            LET recs == FinalizedRecords(content, header_parser) IN
            /\ (outcome = "raised") <=> HasDuplicateHeader(recs)
            /\ outcome = "raised" => dict_has(return_data, error)
            /\ outcome = "returned" => result = recs

\* A duplicate in mapping mode fails although unique-header is false.
C4_Witness ==
    /\ mode = "dict"
    /\ ~expect_unique_header
    /\ outcome = "raised"
    /\ error = <<"a">>

(***************************************************************************)
(* C5: a parse has exactly two outcomes: it returns the complete           *)
(* collection of the whole input, or it raises and returns nothing, also   *)
(* when the duplicate is the last record, finalized at end of input.       *)
(***************************************************************************)
C5_AllOrNothing ==
    /\ outcome \in {"running", "returned", "raised"}
    /\ outcome = "running" => result = <<>> /\ error = <<>>
    /\ outcome = "returned" =>
            /\ result = FinalizedRecords(content, header_parser)
            /\ error = <<>>
    /\ outcome = "raised" =>
            /\ result = <<>>
            /\ HasDuplicateHeader(FinalizedRecords(content, header_parser))

\* The duplicate is the last record of the input: the input ends with a
\* sequence line and the call raises, with one record already committed.
C5_Witness ==
    /\ outcome = "raised"
    /\ result = <<>>
    /\ Len(return_data) = 1
    /\ content # <<>>
    /\ strip(content[Len(content)]) # <<>>
    /\ strip(content[Len(content)])[1] # ">"

(***************************************************************************)
(* C6: a line that is empty after trimming changes nothing of the parser   *)
(* state (current header, partial sequence, committed records); so the     *)
(* parse of an input equals the parse of the same input with its blank     *)
(* lines removed, and the parse of it with a blank line put before every   *)
(* line.                                                                   *)
(***************************************************************************)
WithoutBlanks(c) == SelectSeq(c, LAMBDA l : Len(strip(l)) > 0)

RECURSIVE WithBlanks(_)
WithBlanks(c) ==
    IF c = <<>> THEN <<>>
    ELSE << <<" ", "\n">>, Head(c) >> \o WithBlanks(Tail(c))

SameAsCall(r) ==
    /\ (outcome = "raised") <=> r.raised
    /\ outcome = "raised" => error = r.error
    /\ outcome = "returned" => result = r.return_data

BlankLineRead ==
    /\ content' # content
    /\ Len(strip(content'[Len(content')])) = 0

C6_BlankLinesTransparent ==
    /\ [](Finished =>
            /\ SameAsCall(parse_fasta_all(WithoutBlanks(content), mode,
                                          expect_unique_header, header_parser))
            /\ SameAsCall(parse_fasta_all(WithBlanks(content), mode,
                                          expect_unique_header, header_parser)))
    /\ [][BlankLineRead =>
            UNCHANGED <<seq, header, return_data, all_headers, outcome, result, error>>]_vars

\* Header a, 'mk', two blank lines, 'V': one record with sequence MKV.
C6_Witness ==
    /\ outcome = "returned"
    /\ Len(content) = 5
    /\ strip(content[3]) = <<>>
    /\ strip(content[4]) = <<>>
    /\ result = << <<<<"a">>, <<"M", "K", "V">>>> >>

(***************************************************************************)
(* C7: a header line followed by no sequence character before the next     *)
(* header line or the end of the input is dropped without error: no record *)
(* with an empty sequence is ever committed or returned, the returned      *)
(* collection has one record per block that holds a sequence character,    *)
(* and an input without any sequence line yields zero records.             *)
(***************************************************************************)
NoSequenceLine(c) ==
    \A n \in 1..Len(c) : strip(c[n]) = <<>> \/ strip(c[n])[1] = ">"

C7_DanglingHeaderDropped ==
    /\ \A n \in 1..Len(return_data) : Len(return_data[n][2]) > 0
    /\ outcome = "returned" =>
            /\ \A n \in 1..Len(result) : Len(result[n][2]) > 0
            /\ Len(result) = Len(FinalizedBlocks(content, header_parser))
    /\ (Finished /\ NoSequenceLine(content)) =>
            (outcome = "returned" /\ result = <<>>)

\* Header a directly followed by header A: only A is returned; the input
\* ends with one more dangling header.
C7_Witness ==
    /\ outcome = "returned"
    /\ Len(content) = 4
    /\ strip(content[1]) = <<">", "a">>
    /\ strip(content[2]) = <<">", "A">>
    /\ strip(content[4]) = <<">", "a">>
    /\ Len(result) = 1
    /\ result[1][1] = <<"A">>

(***************************************************************************)
(* C8: with a header-transform, the header stored for every record is the  *)
(* transform of the raw header (the trimmed header line without its '>'),  *)
(* and the duplicate check compares the stored headers by exact,           *)
(* case-sensitive equality: raw headers that differ but transform to the   *)
(* same string are duplicates, headers that differ only in case are not.   *)
(***************************************************************************)
StoredHeaders(c, hp) ==
    LET fb == FinalizedBlocks(c, hp) IN [k \in 1..Len(fb) |-> fb[k].hdr]

Rejecting == mode = "dict" \/ expect_unique_header

C8_HeaderTransform ==
    Finished =>
        LET hs == StoredHeaders(content, header_parser) IN
        /\ outcome = "returned" =>
                [n \in 1..Len(result) |-> result[n][1]] = hs
        /\ Rejecting =>
                ((outcome = "raised") <=>
                    \E j, k \in 1..Len(hs) : j < k /\ hs[j] = hs[k])
        /\ (outcome = "raised" /\ header_parser = "None") =>
                \E j, k \in 1..Len(hs) :
                    /\ j < k
                    /\ FinalizedBlocks(content, header_parser)[j].raw =
                       FinalizedBlocks(content, header_parser)[k].raw

\* Raw headers "a" and "ab" both transform to "a": a duplicate.
C8_Witness ==
    /\ outcome = "raised"
    /\ header_parser = "first_char"
    /\ error = <<"a">>
    /\ \E j, k \in 1..Len(content) :
            /\ strip(content[j]) = <<">", "a">>
            /\ strip(content[k]) = <<">", "a", "b">>

(***************************************************************************)
(* C2: round trip.  As stated: for every mapping and every wrap width      *)
(* (W >= 1 or disabled), parsing the text write_fasta_file produced yields *)
(* the same headers in the same order, each with the upper-cased original  *)
(* sequence.                                                               *)
(***************************************************************************)
OriginalRecords ==
    [k \in 1..Len(sequence_dict) |->
        <<sequence_dict[k][1], ToUpper(sequence_dict[k][2])>>]

C2_RoundTrip_AsStated ==
    wpc = "reparsed" => (outcome = "returned" /\ result = OriginalRecords)

\* A header that survives the trip: no line break in it and no whitespace
\* at its end.  A sequence that survives: not empty, no whitespace and no
\* '>' in it.
CleanHeader(h) ==
    /\ \A n \in 1..Len(h) : h[n] # "\n"
    /\ h # <<>> => h[Len(h)] \notin Whitespace

CleanSequence(s) ==
    /\ s # <<>>
    /\ \A n \in 1..Len(s) : s[n] \notin Whitespace \cup {">"}

CleanDict ==
    \A k \in 1..Len(sequence_dict) :
        /\ CleanHeader(sequence_dict[k][1])
        /\ CleanSequence(sequence_dict[k][2])

(***************************************************************************)
(* C2, amended: the round trip holds for every mapping whose headers carry *)
(* no line break and no trailing whitespace and whose sequences are not    *)
(* empty and contain neither whitespace nor '>'; such a mapping is always  *)
(* written without error.                                                  *)
(***************************************************************************)
C2_RoundTrip ==
    CleanDict =>
        /\ wpc # "raised"
        /\ wpc = "reparsed" => (outcome = "returned" /\ result = OriginalRecords)

\* Two records, b before a, wrapped at two columns and read back: five
\* characters on three lines, then a lower-case sequence that fills its line.
C2_Witness ==
    /\ wpc = "reparsed"
    /\ CleanDict
    /\ linelength = PyInt(2)
    /\ sequence_dict = << <<<<"b">>, <<"A", "B", "C", "D", "E">>>>,
                          <<<<"a">>, <<"m", "k">>>> >>
    /\ Len(content) = 8
    /\ result = << <<<<"b">>, <<"A", "B", "C", "D", "E">>>>,
                   <<<<"a">>, <<"M", "K">>>> >>

(***************************************************************************)
(* C9: for every record and every wrap width W >= 1 the writer emits the   *)
(* line '>' + header, then the characters of the sequence in order with a  *)
(* line break after every W-th character and nowhere else, so that every   *)
(* sequence line has W characters except possibly the last, which has      *)
(* between 1 and W; "ABCDE" with W = 2 is written as "AB\nCD\nE\n\n".      *)
(***************************************************************************)
EndsWith(text, tail) ==
    /\ Len(tail) <= Len(text)
    /\ SubSeq(text, Len(text) - Len(tail) + 1, Len(text)) = tail

\* body is s with a line break after every W-th character and nowhere else.
WrappedAt(body, s, W) ==
    /\ Len(body) = Len(s) + (Len(s) \div W)
    /\ \A n \in 1..Len(body) : (body[n] = "\n") <=> (n % (W + 1) = 0)
    /\ SelectSeq(body, LAMBDA c : c # "\n") = s

SequenceWritten == wpc = "for_i" /\ i = Len(CurrentSeq)

C9_WrapEveryW ==
    /\ (SequenceWritten /\ linelength_arg.type = "int" /\ linelength_arg.val >= 1) =>
          LET W == linelength_arg.val
              n == Len(CurrentSeq) + (Len(CurrentSeq) \div W)
          IN  /\ Len(fh) >= n
              /\ WrappedAt(SubSeq(fh, Len(fh) - n + 1, Len(fh)), CurrentSeq, W)
              /\ EndsWith(SubSeq(fh, 1, Len(fh) - n),
                          <<">">> \o CurrentKey \o <<"\n">>)
    /\ (/\ wpc = "done"
        /\ linelength_arg = PyInt(2)
        /\ sequence_dict = << <<<<"a">>, <<"A", "B", "C", "D", "E">>>> >>) =>
          fh = <<">", "a", "\n", "A", "B", "\n", "C", "D", "\n", "E", "\n", "\n">>

\* ABCDE has been written with W = 2 as the second record.
C9_Witness ==
    /\ SequenceWritten
    /\ key_idx = 2
    /\ linelength_arg = PyInt(2)
    /\ CurrentSeq = <<"A", "B", "C", "D", "E">>
    /\ EndsWith(fh, <<"A", "B", "\n", "C", "D", "\n", "E">>)

(***************************************************************************)
(* C10: for every record of every mapping and every wrap width, exactly    *)
(* one blank line follows the record's sequence: the writer never fails,   *)
(* after each record the text ends with a blank line, and the text never   *)
(* holds two consecutive blank lines.                                      *)
(***************************************************************************)
TwoBlankLines(text) ==
    \E n \in 1..(Len(text) - 2) :
        text[n] = "\n" /\ text[n + 1] = "\n" /\ text[n + 2] = "\n"

C10_OneBlankLine ==
    /\ wpc # "raised"
    /\ (wpc \in {"for_key", "done"} /\ key_idx > 0) => EndsWith(fh, <<"\n", "\n">>)
    /\ ~TwoBlankLines(fh)

(***************************************************************************)
(* C11: a wrap width that is falsy (0, None, False) or less than 1         *)
(* (negative integers included) disables wrapping: no line break is        *)
(* inserted inside the sequence, the whole sequence is one line, followed  *)
(* by the blank-line separator; a truthy width >= 1 is coerced to an       *)
(* integer and used as the wrap column.                                    *)
(***************************************************************************)
\* The width as the caller passed it: None, False, or a number below 1.
ArgDisabled ==
    \/ linelength_arg.type = "NoneType"
    \/ linelength_arg.val < 1

HeaderLineOf(k) == <<">">> \o k \o <<"\n">>

C11_WidthDisabledOrInt ==
    /\ wpc \notin {"idle", "start"} =>
          linelength = (IF ArgDisabled THEN PyFalse ELSE PyInt(linelength_arg.val))
    /\ (SequenceWritten /\ ArgDisabled) =>
          EndsWith(fh, HeaderLineOf(CurrentKey) \o CurrentSeq)
    /\ (ArgDisabled /\ wpc \in {"for_key", "done"} /\ key_idx > 0) =>
          EndsWith(fh, HeaderLineOf(CurrentKey) \o CurrentSeq \o <<"\n", "\n">>)
    /\ (SequenceWritten /\ ~ArgDisabled) =>
          LET W == linelength_arg.val
              n == Len(CurrentSeq) + (Len(CurrentSeq) \div W)
          IN  /\ Len(fh) >= n
              /\ WrappedAt(SubSeq(fh, Len(fh) - n + 1, Len(fh)), CurrentSeq, W)
              /\ EndsWith(SubSeq(fh, 1, Len(fh) - n), HeaderLineOf(CurrentKey))

\* ABCDE written on one line under a negative width.
C11_Witness ==
    /\ wpc = "done"
    /\ linelength_arg = PyInt(-1)
    /\ fh = <<">", "a", "\n", "A", "B", "C", "D", "E", "\n", "\n">>

(***************************************************************************)
(* C12: check_inputs returns normally if and only if the unique-header     *)
(* flag is a boolean, the header-transform is absent or callable and       *)
(* returns a string on the probe, the three policies are members of their  *)
(* sets, output-path is absent or a string, verbosity is a boolean, and    *)
(* it is not the case that duplicate-record-policy = ignore while          *)
(* unique-header = true; in every other case it fails.                     *)
(***************************************************************************)
C12_Conditions ==
    /\ ci_args.expect_unique_header.type = "bool"
    /\ ci_args.header_parser \in {"None", "returns_str"}
    /\ ci_args.duplicate_record_action.text \in {"ignore", "fail", "remove"}
    /\ ci_args.duplicate_sequence_action \in {"ignore", "fail", "remove"}
    /\ ci_args.invalid_sequence_action \in {"ignore", "fail", "remove", "convert"}
    /\ ci_args.output_filename \in {"None", "str"}
    /\ ci_args.verbose.type = "bool"
    /\ ~(/\ ci_args.duplicate_record_action.text = "ignore"
         /\ ci_args.expect_unique_header = PyTrue)

\* "Only if": whenever check_inputs returns normally, all of them hold.
C12_ReturnsOnlyIfValid == ci_pc = "returned" => C12_Conditions

\* "If": whenever all of them hold, check_inputs does not fail.
C12_ValidReturns == (ci_pc = "raised") => ~C12_Conditions

(***************************************************************************)
(* C13: in internal_parse_fasta_file every failure to open the source      *)
(* file, whether the file does not exist or exists but cannot be opened,   *)
(* reaches the caller as ProtfastaException, raised at the open attempt    *)
(* before any line is parsed; no underlying I/O exception reaches the      *)
(* caller unwrapped.                                                       *)
(***************************************************************************)
C13_OpenFailureWrapped ==
    (rpc = "raised" /\ file_state \in {"missing", "directory", "unreadable"}) =>
        /\ raised_type = "ProtfastaException"
        /\ content = <<>>
        /\ outcome = "running"

(***************************************************************************)
(* C16: the file handle opened by internal_parse_fasta_file or by          *)
(* write_fasta_file is closed on every exit path of the call: normal       *)
(* return, a duplicate-header failure of the parse, any error raised while *)
(* reading or while the writer emits records.                              *)
(***************************************************************************)
C16_HandlesClosed ==
    /\ rpc \in {"returned", "raised"} => ~rfh_open
    /\ (rpc # "idle" /\ outcome # "running") => ~rfh_open
    /\ wpc \in {"done", "raised", "reparsed"} => ~fh_open

\* The writer failed while emitting the records of a mapping of two (after
\* the header line of the first): the handle is closed.
C16_Witness ==
    /\ wpc = "raised"
    /\ Len(sequence_dict) = 2
    /\ fh # <<>>
    /\ ~fh_open

\* The parse failed on a duplicate header after the file was read.
C16_WitnessParse ==
    /\ rpc = "raised"
    /\ outcome = "raised"
    /\ error = <<"a">>
    /\ ~rfh_open

(***************************************************************************)
(* C14: writer determinism.  The text write_fasta_file produces is a       *)
(* function of the mapping, in its iteration order, and of the wrap width: *)
(* after k entries it is the concatenation, in iteration order, of the     *)
(* header line, the wrapped sequence and the separator of each of the k    *)
(* entries, and the call fails exactly when the first entry has an empty   *)
(* sequence.  So two calls with the same mapping and the same wrap width,  *)
(* to two destinations, end the same way with identical text, and the      *)
(* header lines appear in the iteration order of the mapping.              *)
(***************************************************************************)
NoMarkerInSequences ==
    \A k \in 1..Len(sequence_dict) :
        \A n \in 1..Len(sequence_dict[k][2]) : sequence_dict[k][2][n] # ">"

HeaderLinesWritten == SelectSeq(readlines(fh), LAMBDA l : l[1] = ">")

WidthOf(ll) == IF ll.type = "NoneType" \/ ll.val < 1 THEN 0 ELSE ll.val

\* s with a line break after every W-th character (W = 0: no line break).
RECURSIVE Wrapped(_, _)
Wrapped(s, W) ==
    IF W = 0 \/ Len(s) < W THEN s
    ELSE SubSeq(s, 1, W) \o <<"\n">> \o Wrapped(SubSeq(s, W + 1, Len(s)), W)

\* The last entry up to the k-th whose sequence is not empty (0: none).
LastNonEmpty(d, k) ==
    LET js == {j \in 1..k : d[j][2] # <<>>}
    IN  IF js = {} THEN 0 ELSE CHOOSE j \in js : \A q \in js : q <= j

\* One line break when the last character written was followed by one,
\* two otherwise.
SeparatorOf(d, k, W) ==
    LET j == LastNonEmpty(d, k)
    IN  IF j > 0 /\ W > 0 /\ Len(d[j][2]) % W = 0 THEN <<"\n">> ELSE <<"\n", "\n">>

Serialized(d, n, W) ==
    Concat([k \in 1..n |->
              HeaderLineOf(d[k][1]) \o Wrapped(d[k][2], W) \o SeparatorOf(d, k, W)])

FirstEntryEmpty == sequence_dict # <<>> /\ sequence_dict[1][2] = <<>>

C14_WriterDeterministic ==
    /\ wpc \in {"for_key", "done", "reparsed"} =>
          /\ fh = Serialized(sequence_dict, key_idx, WidthOf(linelength_arg))
          /\ key_idx > 0 => ~FirstEntryEmpty
    /\ wpc = "raised" =>
          /\ FirstEntryEmpty
          /\ fh = HeaderLineOf(sequence_dict[1][1])
    /\ (wpc = "done" /\ NoMarkerInSequences) =>
          HeaderLinesWritten =
              [k \in 1..Len(sequence_dict) |-> HeaderLineOf(sequence_dict[k][1])]
    /\ (run = 2 /\ wpc \in {"done", "raised"}) => first_run = <<wpc, fh>>

\* The second call has written the same two entries as the first, B before
\* a, the second after an entry that left a line break behind.
C14_Witness ==
    /\ run = 2
    /\ wpc = "done"
    /\ linelength_arg = PyInt(2)
    /\ sequence_dict = << <<<<"B", " ">>, <<"A", "B">>>>, <<<<"a">>, <<>>>> >>
    /\ fh = <<">", "B", " ", "\n", "A", "B", "\n", "\n", ">", "a", "\n", "\n">>
    /\ first_run = <<"done", fh>>

(***************************************************************************)
(* C15: sequence lines read before the first header line never produce or  *)
(* contribute to a returned record: the header of every returned record is *)
(* the (transformed) header of a header line of the input, and the number  *)
(* of returned records never exceeds the number of header lines.           *)
(***************************************************************************)
HeadersOfHeaderLines(c, hp) ==
    LET sl == StrippedLines(c)
    IN  {Transformed(hp, Tail(sl[p])) : p \in {q \in 1..Len(sl) : sl[q][1] = ">"}}

C15_RecordsOnlyFromHeaderLines ==
    /\ Len(return_data) <= NumHeaderLines(content)
    /\ outcome = "returned" =>
          /\ Len(result) <= NumHeaderLines(content)
          /\ \A n \in 1..Len(result) :
                result[n][1] \in HeadersOfHeaderLines(content, header_parser)

(***************************************************************************)
(* C17: the text written for one record is determined by its header, its   *)
(* sequence and the wrap width alone: the writer never fails, and after    *)
(* k records the text is the concatenation of the k record texts, each the *)
(* text the record gets as the first record of a mapping (an empty         *)
(* sequence: the header line and the blank-line separator).                *)
(***************************************************************************)
WrapWidth == IF ArgDisabled THEN 0 ELSE linelength_arg.val

RECURSIVE WrapBody(_, _)
WrapBody(s, W) ==
    IF W = 0 \/ Len(s) < W THEN s
    ELSE SubSeq(s, 1, W) \o <<"\n">> \o WrapBody(SubSeq(s, W + 1, Len(s)), W)

RecordText(k, s, W) ==
    HeaderLineOf(k) \o WrapBody(s, W) \o
    (IF W > 0 /\ Len(s) > 0 /\ Len(s) % W = 0 THEN <<"\n">> ELSE <<"\n", "\n">>)

C17_RecordTextPositionFree ==
    /\ wpc # "raised"
    /\ wpc \in {"for_key", "done"} =>
          fh = Concat([k \in 1..key_idx |->
                          RecordText(sequence_dict[k][1], sequence_dict[k][2], WrapWidth)])

(***************************************************************************)
(* C18: during a parse the committed records are append-only.  A further   *)
(* line (or the end of the input) leaves every committed record in place   *)
(* and adds at most one; a record is added only by a header line or by the *)
(* end of the input; so the collection after k lines is a prefix of the    *)
(* collection after k + 1 lines, in list mode and in mapping mode, and it  *)
(* never holds more records than header lines read, plus one at the end.   *)
(***************************************************************************)
IsPrefix(a, b) == Len(a) <= Len(b) /\ SubSeq(b, 1, Len(a)) = a

HeaderLineRead ==
    /\ content' # content
    /\ Len(strip(content'[Len(content')])) > 0
    /\ strip(content'[Len(content')])[1] = ">"

C18_AppendOnly ==
    /\ [](Len(return_data) <= NumHeaderLines(content) + (IF Finished THEN 1 ELSE 0))
    /\ [][/\ IsPrefix(return_data, return_data')
          /\ Len(return_data') <= Len(return_data) + 1
          /\ Len(return_data') > Len(return_data) =>
                (HeaderLineRead \/ (outcome = "running" /\ outcome' = "returned"))
         ]_vars

\* Two records are committed and the parse goes on.
C18_Witness ==
    /\ outcome = "running"
    /\ Len(content) = 5
    /\ Len(return_data) = 2
    /\ return_data[1][1] # return_data[2][1]
    /\ Len(seq) > 0

(***************************************************************************)
(* C19: mapping mode and list mode with unique-header = true are           *)
(* equivalent on every input: one raises the duplicate-header error        *)
(* exactly when the other does, for the same header and after the same     *)
(* number of committed records, and when both return, the entries of the   *)
(* mapping in insertion order are the records of the list in order.        *)
(***************************************************************************)
OtherMode(r) ==
    /\ SameAsCall(r)
    /\ Len(return_data) = Len(r.return_data)
    /\ \A n \in 1..Len(return_data) :
          /\ return_data[n][1] = r.return_data[n][1]
          /\ return_data[n][2] = r.return_data[n][2]

C19_MappingEqualsUniqueList ==
    Finished =>
        /\ mode = "dict" =>
              OtherMode(parse_fasta_all(content, "list", TRUE, header_parser))
        /\ (mode = "list" /\ expect_unique_header) =>
              OtherMode(parse_fasta_all(content, "dict", expect_unique_header, header_parser))

\* List mode with unique headers stops at the second record, a duplicate.
C19_Witness ==
    /\ mode = "list"
    /\ expect_unique_header
    /\ outcome = "raised"
    /\ Len(return_data) = 1
    /\ Len(content) >= 4

====
